---- MODULE Spec2Model ----
(***************************************************************************)
(* Model of the provider race engine of the chat route (Dchat):           *)
(*   linkSignals, isMeaningfulSSEFrame, requestStream (fetch, TextDecoder, *)
(*   processBuffer, pump), raceProviders, raceWithRetry and the response   *)
(*   POST builds on the winner's stream.                                   *)
(*                                                                         *)
(* Text is a sequence of symbols.  A symbol is one character ("\n", "\r",  *)
(* " ", ":", "a", ...) or, for a JSON document, the whole document taken   *)
(* as one lexeme (JSON.parse is a table on those lexemes).  On the wire a  *)
(* symbol is one byte, except the two-byte character EAcute.               *)
(*                                                                         *)
(* One step of the model is one task of the JavaScript event loop (a       *)
(* network event, a timer, an abort event) run to completion; the          *)
(* coordinator's reactions to settled attempts are microtasks, kept in a   *)
(* FIFO, and no task starts while that FIFO is non-empty.                  *)
(***************************************************************************)
EXTENDS Integers, Sequences, FiniteSets, TLC

\* ------------------------------------------------------------------ bounds
MaxProviders == 3
MaxReads == 2
MaxBytes == 5
MaxLines == 2

\* ------------------------------------------------------- program constants
MAX == 4
MAX_RETRY_COUNT == 3

\* ------------------------------------------------------------------ symbols
LF == "\n"
CR == "\r"
SP == " "
TAB == "\t"
EAcute == "e'"
Replacement == "U+FFFD"
LeadByte == "C3"
TrailByte == "A9"

Min(S) == CHOOSE x \in S : \A y \in S : x <= y

Drop(t, k) == SubSeq(t, k + 1, Len(t))

StartsWith(t, p) == Len(t) >= Len(p) /\ SubSeq(t, 1, Len(p)) = p

\* ------------------------------------------------- TextDecoder, TextEncoder
\* decoder.decode(value, {stream: true}) with fatal: false.  pending holds the
\* bytes of an unfinished character, kept for the next call.
RECURSIVE decode(_, _)
decode(pending, bytes) ==
    IF bytes = <<>> THEN [text |-> <<>>, pending |-> pending]
    ELSE LET b == Head(bytes) IN
         IF pending # <<>>
         THEN IF b = TrailByte
              THEN LET r == decode(<<>>, Tail(bytes)) IN
                   [r EXCEPT !.text = <<EAcute>> \o @]
              ELSE LET r == decode(<<>>, bytes) IN
                   [r EXCEPT !.text = <<Replacement>> \o @]
         ELSE IF b = LeadByte THEN decode(<<LeadByte>>, Tail(bytes))
         ELSE LET r == decode(<<>>, Tail(bytes)) IN
              [r EXCEPT !.text = <<(IF b = TrailByte THEN Replacement ELSE b)>> \o @]

\* encoder.encode(text)
RECURSIVE encode(_)
encode(text) ==
    IF text = <<>> THEN <<>>
    ELSE (CASE Head(text) = EAcute -> <<LeadByte, TrailByte>>
            [] Head(text) = Replacement -> <<"EF", "BF", "BD">>
            [] OTHER -> <<Head(text)>>) \o encode(Tail(text))

\* ---------------------------------------------------------- string methods
\* buffer.replace(/\r\n?/g, '\n')
RECURSIVE replaceCR(_)
replaceCR(t) ==
    IF t = <<>> THEN <<>>
    ELSE IF Head(t) = CR
         THEN IF Len(t) >= 2 /\ t[2] = LF
              THEN <<LF>> \o replaceCR(Drop(t, 2))
              ELSE <<LF>> \o replaceCR(Tail(t))
         ELSE <<Head(t)>> \o replaceCR(Tail(t))

\* buffer.indexOf('\n\n'), counted from 1; 0 when absent (JavaScript's -1)
indexOfBlank(t) ==
    LET hits == {k \in 1..(Len(t) - 1) : t[k] = LF /\ t[k + 1] = LF}
    IN IF hits = {} THEN 0 ELSE Min(hits)

\* frame.split('\n')
RECURSIVE split(_)
split(t) ==
    LET hits == {k \in 1..Len(t) : t[k] = LF}
    IN IF hits = {} THEN <<t>>
       ELSE <<SubSeq(t, 1, Min(hits) - 1)>> \o split(Drop(t, Min(hits)))

\* \s of the regular expression and of trim(); "." excludes line terminators
WhiteSpace == {SP, TAB, CR, LF}
LineTerminators == {CR, LF}

RECURSIVE trimStart(_)
trimStart(t) ==
    IF t # <<>> /\ Head(t) \in WhiteSpace THEN trimStart(Tail(t)) ELSE t

RECURSIVE trimEnd(_)
trimEnd(t) ==
    IF t # <<>> /\ t[Len(t)] \in WhiteSpace
    THEN trimEnd(SubSeq(t, 1, Len(t) - 1)) ELSE t

trim(t) == trimEnd(trimStart(t))

DataPrefix == <<"d", "a", "t", "a", ":">>
DONE == <<"[", "D", "O", "N", "E", "]">>

\* /^data:\s?(.*)$/.exec(line): the capture m[1], or "null" when no match
dataMatch(line) ==
    IF ~StartsWith(line, DataPrefix) THEN [matched |-> FALSE, m1 |-> <<>>]
    ELSE LET rest == Drop(line, Len(DataPrefix))
             m1 == IF rest # <<>> /\ Head(rest) \in WhiteSpace THEN Tail(rest) ELSE rest
         IN IF \E k \in 1..Len(m1) : m1[k] \in LineTerminators
            THEN [matched |-> FALSE, m1 |-> <<>>]
            ELSE [matched |-> TRUE, m1 |-> m1]

\* ------------------------------------------------------------------- JSON
JUndefined == [t |-> "undefined"]
JNull == [t |-> "null"]
JNumber == [t |-> "number"]
JString(x) == [t |-> "string", v |-> x]
JObject(f) == [t |-> "object", f |-> f]
JArray(a) == [t |-> "array", a |-> a]
SyntaxError == [t |-> "SyntaxError"]

Choices(delta) == JObject([choices |-> JArray(<<JObject(delta)>>)])

\* The JSON documents of the model, each one lexeme, with their values.
JSONDocs ==
    ("{\"choices\":[{\"delta\":{\"content\":\"hi\"}}]}"
        :> Choices([delta |-> JObject([content |-> JString("hi")])]))
    @@ ("{\"choices\":[{\"delta\":{\"role\":\"assistant\"}}]}"
        :> Choices([delta |-> JObject([role |-> JString("assistant")])]))
    @@ ("{\"choices\":[{\"delta\":{\"content\":\"\"}}]}"
        :> Choices([delta |-> JObject([content |-> JString("")])]))
    @@ ("{\"choices\":[{\"message\":{\"content\":\"hi\"}}]}"
        :> Choices([message |-> JObject([content |-> JString("hi")])]))
    @@ ("{\"choices\":[{\"delta\":{\"function_call\":{\"name\":\"f\"}}}]}"
        :> Choices([delta |-> JObject([function_call |-> JObject([name |-> JString("f")])])]))
    @@ ("{\"choices\":[{\"delta\":{\"function_call\":{\"name\":\"\"}}}]}"
        :> Choices([delta |-> JObject([function_call |-> JObject([name |-> JString("")])])]))
    @@ ("{\"choices\":[{\"delta\":{\"function_call\":{\"arguments\":\"{\"}}}]}"
        :> Choices([delta |-> JObject([function_call |-> JObject([arguments |-> JString("{")])])]))
    @@ ("{\"choices\":[{\"delta\":{\"function_call\":{\"arguments\":\"\"}}}]}"
        :> Choices([delta |-> JObject([function_call |-> JObject([arguments |-> JString("")])])]))
    @@ ("{\"choices\":[{\"delta\":{\"tool_calls\":[{\"function\":{\"name\":\"f\"}}]}}]}"
        :> Choices([delta |-> JObject([tool_calls |->
               JArray(<<JObject([function |-> JObject([name |-> JString("f")])])>>)])]))
    @@ ("{\"choices\":[{\"delta\":{\"tool_calls\":[{\"function\":{\"arguments\":\"\"}}]}}]}"
        :> Choices([delta |-> JObject([tool_calls |->
               JArray(<<JObject([function |-> JObject([arguments |-> JString("")])])>>)])]))
    @@ ("{\"choices\":[{\"delta\":{\"tool_calls\":[null]}}]}"
        :> Choices([delta |-> JObject([tool_calls |-> JArray(<<JNull>>)])]))
    @@ ("{\"choices\":[{\"delta\":{\"tool_calls\":[{\"function\":{\"name\":\"\"}}]}}]}"
        :> Choices([delta |-> JObject([tool_calls |->
               JArray(<<JObject([function |-> JObject([name |-> JString("")])])>>)])]))
    @@ ("{\"choices\":[{\"delta\":{\"tool_calls\":[{\"function\":{\"arguments\":\"{\"}}]}}]}"
        :> Choices([delta |-> JObject([tool_calls |->
               JArray(<<JObject([function |-> JObject([arguments |-> JString("{")])])>>)])]))
    @@ ("{\"choices\":[{\"delta\":{\"role\":\"assistant\"},\"message\":{\"content\":\"hi\"}}]}"
        :> Choices([delta |-> JObject([role |-> JString("assistant")]),
                    message |-> JObject([content |-> JString("hi")])]))
    @@ ("{\"choices\":[]}" :> JObject([choices |-> JArray(<<>>)]))
    @@ ("{}" :> JObject(<<>>))
    @@ ("null" :> JNull)
    @@ ("1" :> JNumber)

\* JSON.parse(payload): every other text of the model is not JSON
JSONparse(payload) ==
    IF Len(payload) = 1 /\ payload[1] \in DOMAIN JSONDocs
    THEN JSONDocs[payload[1]] ELSE SyntaxError

Nullish(v) == v.t \in {"undefined", "null"}

\* v?.k and v.k on a value that is not nullish
Prop(v, k) == IF v.t = "object" /\ k \in DOMAIN v.f THEN v.f[k] ELSE JUndefined

\* v?.[0]
First(v) == IF v.t = "array" /\ v.a # <<>> THEN v.a[1] ELSE JUndefined

\* a ?? b
Coalesce(a, b) == IF Nullish(a) THEN b ELSE a

Truthy(v) == ~Nullish(v) /\ ~(v.t = "string" /\ v.v = "")

IsString(v) == v.t = "string"

NonEmptyString(v) == v.t = "string" /\ v.v # ""

\* typeof f.name === 'string' || (typeof f.arguments === 'string' && f.arguments.length > 0)
hasInfo(f) == IsString(Prop(f, "name")) \/ NonEmptyString(Prop(f, "arguments"))

\* mutant: only the delta is read, a message is not
tryPayloadDeltaOnly(payload) ==
    LET j == JSONparse(payload)
        choice == First(Prop(j, "choices"))
        delta == Coalesce(Prop(choice, "delta"), JObject(<<>>))
        fn == Coalesce(Prop(delta, "function_call"), Prop(delta, "function"))
        tc == Prop(delta, "tool_calls")
    IN IF j.t = "SyntaxError" THEN "throw"
       ELSE IF NonEmptyString(Prop(delta, "content")) THEN "true"
       ELSE IF Truthy(fn) /\ hasInfo(fn) THEN "true"
       ELSE IF tc.t = "array" /\ tc.a # <<>>
            THEN LET stop == {k \in 1..Len(tc.a) :
                                  Nullish(tc.a[k])
                                  \/ (Truthy(Prop(tc.a[k], "function"))
                                      /\ hasInfo(Prop(tc.a[k], "function")))}
                 IN IF stop = {} THEN "next"
                    ELSE IF Nullish(tc.a[Min(stop)]) THEN "throw" ELSE "true"
            ELSE "next"

\* The body of the try block for one payload that is neither blank nor [DONE]:
\* "true" (return true), "next" (fall through to the next payload), or "throw".
tryPayload(payload) ==
    LET j == JSONparse(payload)
        choice == First(Prop(j, "choices"))
        delta == Coalesce(Prop(choice, "delta"), Coalesce(Prop(choice, "message"), JObject(<<>>)))
        fn == Coalesce(Prop(delta, "function_call"), Prop(delta, "function"))
        tc == Prop(delta, "tool_calls")
    IN IF j.t = "SyntaxError" THEN "throw"
       ELSE IF NonEmptyString(Prop(delta, "content")) THEN "true"
       ELSE IF Truthy(fn) /\ hasInfo(fn) THEN "true"
       ELSE IF tc.t = "array" /\ tc.a # <<>>
            THEN LET stop == {k \in 1..Len(tc.a) :
                                  Nullish(tc.a[k])
                                  \/ (Truthy(Prop(tc.a[k], "function"))
                                      /\ hasInfo(Prop(tc.a[k], "function")))}
                 IN IF stop = {} THEN "next"
                    ELSE IF Nullish(tc.a[Min(stop)]) THEN "throw" ELSE "true"
            ELSE "next"

\* lines of the frame that match data:, in order, as their captures
dataLinesOf(frame) ==
    LET lines == SelectSeq(split(frame), LAMBDA l : Len(l) > 0)
        kept == SelectSeq(lines, LAMBDA l : Head(l) # ":" /\ dataMatch(l).matched)
    IN [k \in 1..Len(kept) |-> dataMatch(kept[k]).m1]

\* mutant: the [DONE] sentinel is not excluded
isMeaningfulWithDone(frame) ==
    IF frame = <<>> THEN FALSE
    ELSE LET dataLines == dataLinesOf(frame) IN
         IF Len(dataLines) = 0 THEN FALSE
         ELSE \E k \in 1..Len(dataLines) :
                 LET payload == trim(dataLines[k]) IN
                 /\ payload # <<>>
                 /\ tryPayload(payload) \in {"true", "throw"}

\* mutant: a payload that is not JSON is skipped
isMeaningfulStrict(frame) ==
    IF frame = <<>> THEN FALSE
    ELSE LET dataLines == dataLinesOf(frame) IN
         IF Len(dataLines) = 0 THEN FALSE
         ELSE \E k \in 1..Len(dataLines) :
                 LET payload == trim(dataLines[k]) IN
                 /\ payload # <<>>
                 /\ payload # DONE
                 /\ tryPayload(payload) = "true"

isMeaningfulSSEFrame(frame) ==
    IF frame = <<>> THEN FALSE
    ELSE LET dataLines == dataLinesOf(frame) IN
         IF Len(dataLines) = 0 THEN FALSE
         ELSE \E k \in 1..Len(dataLines) :
                 LET payload == trim(dataLines[k]) IN
                 /\ payload # <<>>
                 /\ payload # DONE
                 \* the catch block returns true as well
                 /\ tryPayload(payload) \in {"true", "throw"}


\* ------------------------------------------------------------------- state
VARIABLES
    env,              \* process.env: per slot, BASE_URL_i, KEY_i and MODEL_i
    req,              \* what await req.json() gives: the parsed body, or SyntaxError
    loaded,           \* getProviders() has been called
    http,             \* the Response POST returned: [status, body], status 0 before
    providers,        \* const providers = getProviders(), <<>> before
    outerSignal,      \* req.signal: [aborted]
    raceStarted,      \* raceProviders has been called
    perControllers,   \* per attempt: [aborted, calls], calls = number of abort() calls
    unlinks,          \* per attempt: outerSignal still holds the listener of linkSignals
    timeoutId,        \* "none", "armed", "fired", "cleared"
    abortController,  \* per attempt: requestStream's own controller: [aborted]
    unlink,           \* per attempt: perControllers[i].signal still holds the listener
    attempts,         \* per attempt: the state of requestStream
    microtasks,       \* outcomes of settled attempts not yet handled, FIFO
    settled,          \* raceProviders: let settled
    remaining,        \* raceProviders: let remaining
    racePromise,      \* the promise raceProviders returns: [state, winner]
    promotions,       \* how many times the winner branch of the handler ran
    firstMeaningful,  \* the attempt whose processBuffer first met a meaningful frame, or 0
    attempt,          \* raceWithRetry: let attempt (0 before the call)
    loop,             \* raceWithRetry: "idle", "racing", "delay", "returned", "thrown"
    lastErr,          \* raceWithRetry: let lastErr
    res,              \* what raceWithRetry returned: the stream [race, index], or none
    thrown,           \* the error raceWithRetry threw
    delays,           \* how many times raceWithRetry waited RETRY_DELAY_MS
    response          \* what the caller has read from the Response body, in order

vars == <<env, req, loaded, http, providers, outerSignal, raceStarted, perControllers, unlinks, timeoutId,
          abortController, unlink, attempts, microtasks, settled, remaining,
          racePromise, promotions, firstMeaningful,
          attempt, loop, lastErr, res, thrown, delays, response>>

retryVars == <<attempt, loop, lastErr, res, thrown, delays, response>>

Indices == 1..Len(providers)

\* The state as one record, so that the synchronous code of a handler is a
\* composition of functions on it.
St ==
    [perControllers |-> perControllers, unlinks |-> unlinks, timeoutId |-> timeoutId,
     abortController |-> abortController, unlink |-> unlink, attempts |-> attempts,
     microtasks |-> microtasks, settled |-> settled, remaining |-> remaining,
     racePromise |-> racePromise, promotions |-> promotions]

Commit(s) ==
    /\ perControllers' = s.perControllers
    /\ unlinks' = s.unlinks
    /\ timeoutId' = s.timeoutId
    /\ abortController' = s.abortController
    /\ unlink' = s.unlink
    /\ attempts' = s.attempts
    /\ microtasks' = s.microtasks
    /\ settled' = s.settled
    /\ remaining' = s.remaining
    /\ racePromise' = s.racePromise
    /\ promotions' = s.promotions

\* requestStream before it is called
NewAttempt ==
    [phase |-> "idle",          \* idle, fetching, errbody, streaming, done
     promise |-> "pending",     \* the promise of requestStream
     error |-> "none",          \* what it rejected with
     bodyTxt |-> <<>>,          \* the bodyTxt in the message of that error
     settledWinner |-> FALSE,
     buffer |-> <<>>,
     pending |-> <<>>,          \* the TextDecoder's unfinished character
     out |-> <<>>,              \* what was enqueued on outStream
     closed |-> FALSE,          \* controller.close() was called
     reads |-> 0,               \* chunks read
     received |-> <<>>]         \* all bytes read

\* --------------------------------------------------------- requestStream
\* resolve(...) and reject(...) of requestStream's promise; the chain
\* .then(ok).catch(fail) of raceProviders queues the outcome for its handler.
resolve(s, i) ==
    IF s.attempts[i].promise # "pending" THEN s
    ELSE [s EXCEPT !.attempts[i].promise = "resolved",
                   !.microtasks = Append(@, [index |-> i, ok |-> TRUE])]

reject(s, i, why) ==
    IF s.attempts[i].promise # "pending" THEN s
    ELSE [s EXCEPT !.attempts[i].promise = "rejected",
                   !.attempts[i].error = why,
                   !.microtasks = Append(@, [index |-> i, ok |-> FALSE])]

\* the while loop of processBuffer, on a buffer already normalized
RECURSIVE frameLoop(_)
frameLoop(a) ==
    LET idx == indexOfBlank(a.buffer) IN
    IF idx = 0 THEN a
    ELSE LET frame == SubSeq(a.buffer, 1, idx - 1) IN
         frameLoop([a EXCEPT
             !.buffer = Drop(a.buffer, idx + 1),
             !.out = Append(@, encode(frame \o <<LF, LF>>)),
             !.settledWinner = @ \/ isMeaningfulSSEFrame(frame)])

processBuffer(a) ==
    frameLoop([a EXCEPT !.buffer = IF \E k \in 1..Len(@) : @[k] = CR
                                   THEN replaceCR(@) ELSE @])

\* pump: reader.read() gave {value, done: false}
onChunk(s, i, value) ==
    LET a == s.attempts[i]
        d == decode(a.pending, value)
        a2 == processBuffer([a EXCEPT !.buffer = @ \o d.text,
                                      !.pending = d.pending,
                                      !.reads = @ + 1,
                                      !.received = @ \o value])
        s1 == [s EXCEPT !.attempts[i] = a2]
    IN IF a2.settledWinner /\ ~a.settledWinner THEN resolve(s1, i) ELSE s1

endsWithBlank(b) == Len(b) >= 2 /\ b[Len(b) - 1] = LF /\ b[Len(b)] = LF

\* pump: reader.read() gave {done: true}
onDone(s, i) ==
    LET a == s.attempts[i]
        b == IF \E k \in 1..Len(a.buffer) : a.buffer[k] = CR
             THEN replaceCR(a.buffer) ELSE a.buffer
        a1 == IF Len(a.buffer) > 0
              THEN [a EXCEPT !.out = Append(@, encode(IF endsWithBlank(b) THEN b
                                                      ELSE b \o <<LF, LF>>)),
                             !.buffer = <<>>]
              ELSE a
        s1 == [s EXCEPT !.attempts[i] = a1]
        s2 == IF ~a1.settledWinner THEN reject(s1, i, "nomeaningful") ELSE s1
    IN [s2 EXCEPT !.unlink[i] = FALSE,
                  !.attempts[i].closed = TRUE,
                  !.attempts[i].phase = "done"]

\* mutant: the catch block rejects whether or not the attempt has resolved
pumpCatchRejectsWinner(s, i, why) ==
    [s EXCEPT !.attempts[i].promise = "rejected",
              !.attempts[i].error = why,
              !.microtasks = Append(@, [index |-> i, ok |-> FALSE]),
              !.unlink[i] = FALSE,
              !.attempts[i].closed = TRUE,
              !.attempts[i].phase = "done"]

\* mutant: an error of the read turns the winner, and its race, into a failure
pumpCatchFailsRace(s, i, why) ==
    LET s1 == IF ~s.attempts[i].settledWinner THEN reject(s, i, why)
              ELSE [s EXCEPT !.attempts[i].promise = "rejected",
                             !.attempts[i].error = why,
                             !.racePromise.state = "rejected"]
    IN [s1 EXCEPT !.unlink[i] = FALSE,
                  !.attempts[i].closed = TRUE,
                  !.attempts[i].phase = "done"]

\* pump: the catch block (reader.read() rejected)
pumpCatch(s, i, why) ==
    LET s1 == IF ~s.attempts[i].settledWinner THEN reject(s, i, why) ELSE s
    IN [s1 EXCEPT !.unlink[i] = FALSE,
                  !.attempts[i].closed = TRUE,
                  !.attempts[i].phase = "done"]

\* mutant: race on the connection, resolving as soon as the response is ok
onResponseOkResolves(s, i) == resolve([s EXCEPT !.attempts[i].phase = "streaming"], i)

\* fetch resolved with res.ok and a body: reader, outStream, start(), pump()
onResponseOk(s, i) == [s EXCEPT !.attempts[i].phase = "streaming"]

\* .catch(() => ...) of res.text(): the text that stands for an error body
\* that could not be read
Unreadable == <<"(no readable error text)">>

\* mutant: the abort reaches the fetch only, and a stream that is being read
\* goes on
abortInnerFetchOnly(s, i) ==
    IF s.abortController[i].aborted THEN s
    ELSE LET s1 == [s EXCEPT !.abortController[i].aborted = TRUE]
             ph == s.attempts[i].phase
         IN CASE ph = "fetching" ->
                   [reject(s1, i, "abort") EXCEPT !.attempts[i].phase = "done"]
              [] ph = "errbody" ->
                   [reject(s1, i, "http") EXCEPT !.attempts[i].phase = "done",
                                                 !.attempts[i].bodyTxt = Unreadable]
              [] OTHER -> s1

\* abortController.abort() of attempt i and what the abort does to the pending
\* fetch, res.text() or reader.read()
abortInner(s, i) ==
    IF s.abortController[i].aborted THEN s
    ELSE LET s1 == [s EXCEPT !.abortController[i].aborted = TRUE]
             ph == s.attempts[i].phase
         IN CASE ph = "fetching" ->
                   [reject(s1, i, "abort") EXCEPT !.attempts[i].phase = "done"]
              [] ph = "errbody" ->
                   [reject(s1, i, "http") EXCEPT !.attempts[i].phase = "done",
                                                 !.attempts[i].bodyTxt = Unreadable]
              [] ph = "streaming" -> pumpCatch(s1, i, "abort")
              [] OTHER -> s1

\* mutant: the cancel callback runs on a stream that is already closed too
cancelAlways(s, i) ==
    pumpCatch([s EXCEPT !.abortController[i].aborted = TRUE], i,
              IF s.attempts[i].buffer # <<>> THEN "typeerror" ELSE "nomeaningful")

\* outStream.cancel(): nothing on a closed stream; otherwise the stream is
\* closed and the cancel callback runs: reader.cancel(), abortController.abort(),
\* unlink(); the pending read ends and the pump, resumed, finds the stream closed
cancel(s, i) ==
    IF s.attempts[i].closed THEN s
    ELSE pumpCatch([s EXCEPT !.abortController[i].aborted = TRUE], i,
                   IF s.attempts[i].buffer # <<>> THEN "typeerror" ELSE "nomeaningful")

\* ------------------------------------------------------------- linkSignals
\* onAbort of linkSignals: whether it calls target.abort()
onAbort(targetAborted) == ~targetAborted

\* mutant: a source that is already aborted is listened to like a live one
linkSignalsLate(source, targetAborted) ==
    CASE source = "none" -> [abortNow |-> FALSE, listening |-> FALSE]
      [] OTHER -> [abortNow |-> FALSE, listening |-> TRUE]

\* linkSignals(source, target): what it does at once.  source is "none" (no
\* signal given), "aborted" or "live".
linkSignals(source, targetAborted) ==
    CASE source = "none" -> [abortNow |-> FALSE, listening |-> FALSE]
      [] source = "aborted" -> [abortNow |-> onAbort(targetAborted), listening |-> FALSE]
      [] OTHER -> [abortNow |-> FALSE, listening |-> TRUE]

\* perControllers[i].abort(): counted; a no-op on an aborted controller;
\* otherwise the listener requestStream's linkSignals left on its signal runs (once)
abortPer(s, i) ==
    LET s1 == [s EXCEPT !.perControllers[i].calls = @ + 1] IN
    IF s.perControllers[i].aborted THEN s1
    ELSE LET s2 == [s1 EXCEPT !.perControllers[i].aborted = TRUE] IN
         IF ~s.unlink[i] THEN s2
         ELSE LET s3 == [s2 EXCEPT !.unlink[i] = FALSE] IN
              IF onAbort(s3.abortController[i].aborted) THEN abortInner(s3, i) ELSE s3

RECURSIVE abortEach(_, _)
abortEach(s, js) ==
    IF js = <<>> THEN s ELSE abortEach(abortPer(s, Head(js)), Tail(js))

\* ----------------------------------------------------------- raceProviders
\* mutant: the timer is left armed
clearAllButTimer(s) == [s EXCEPT !.unlinks = [i \in DOMAIN @ |-> FALSE]]

\* clearAll: clearTimeout(timeoutId) and every unlink of the outer signal
clearAll(s) ==
    [s EXCEPT !.timeoutId = IF @ = "armed" THEN "cleared" ELSE @,
              !.unlinks = [i \in DOMAIN @ |-> FALSE]]

\* An Error is its message, a sequence of parts.
Error(message) == [message |-> message]
NoError == Error(<<"undefined">>)

\* the fixed sentence raceProviders rejects with: all configured providers
\* failed to return a usable stream, check network, keys or model names
AllFailedText == "no configured provider returned a usable stream"

\* mutant: the race resolves with the stream of the first slot
raceResolveFirstSlot(s, i) ==
    IF s.racePromise.state # "pending" THEN s
    ELSE [s EXCEPT !.racePromise = [state |-> "resolved", winner |-> 1, error |-> NoError]]

\* resolve / reject of the promise raceProviders returns
raceResolve(s, i) ==
    IF s.racePromise.state # "pending" THEN s
    ELSE [s EXCEPT !.racePromise = [state |-> "resolved", winner |-> i, error |-> NoError]]

\* mutant: the error of the race repeats the error body of its first attempt
raceRejectWithBody(s) ==
    IF s.racePromise.state # "pending" THEN s
    ELSE [s EXCEPT !.racePromise =
                     [state |-> "rejected", winner |-> 0,
                      error |-> Error(<<AllFailedText>> \o s.attempts[1].bodyTxt)]]

raceReject(s) ==
    IF s.racePromise.state # "pending" THEN s
    ELSE [s EXCEPT !.racePromise =
                     [state |-> "rejected", winner |-> 0, error |-> Error(<<AllFailedText>>)]]

\* mutant: skip the attempts that have already failed
abortOthersPending(s, index) ==
    abortEach(s, SelectSeq([j \in DOMAIN s.attempts |-> j],
                           LAMBDA j : j # index /\ s.attempts[j].promise = "pending"))

\* the winner branch: cancel the others
abortOthers(s, index) ==
    abortEach(s, SelectSeq([j \in DOMAIN s.attempts |-> j], LAMBDA j : j # index))

\* mutant: a handler that resolves on every success, with no settled guard and
\* without cancelling the others
handlerEverySuccess(s, outcome) ==
    IF outcome.ok
    THEN raceResolve(clearAll([s EXCEPT !.settled = TRUE, !.promotions = @ + 1]), outcome.index)
    ELSE LET s1 == [s EXCEPT !.remaining = @ - 1] IN
         IF s1.remaining = 0 /\ ~s1.settled
         THEN raceReject(clearAll([s1 EXCEPT !.settled = TRUE]))
         ELSE s1

\* mutant: the race is rejected by the first attempt that fails
handlerFailFast(s, outcome) ==
    IF s.settled THEN s
    ELSE IF outcome.ok
         THEN LET s1 == [s EXCEPT !.settled = TRUE, !.promotions = @ + 1]
              IN raceResolve(clearAll(abortOthers(s1, outcome.index)), outcome.index)
         ELSE raceReject(clearAll([s EXCEPT !.remaining = @ - 1, !.settled = TRUE]))

\* mutant: the race is rejected when one attempt is still to come
handlerOffByOne(s, outcome) ==
    IF s.settled THEN s
    ELSE IF outcome.ok
         THEN LET s1 == [s EXCEPT !.settled = TRUE, !.promotions = @ + 1]
              IN raceResolve(clearAll(abortOthers(s1, outcome.index)), outcome.index)
         ELSE LET s1 == [s EXCEPT !.remaining = @ - 1] IN
              IF s1.remaining <= 1 /\ ~s1.settled
              THEN raceReject(clearAll([s1 EXCEPT !.settled = TRUE]))
              ELSE s1

\* mutant: a race that fails leaves its timer armed
handlerKeepsTimer(s, outcome) ==
    IF s.settled THEN s
    ELSE IF outcome.ok
         THEN LET s1 == [s EXCEPT !.settled = TRUE, !.promotions = @ + 1]
              IN raceResolve(clearAll(abortOthers(s1, outcome.index)), outcome.index)
         ELSE LET s1 == [s EXCEPT !.remaining = @ - 1] IN
              IF s1.remaining = 0 /\ ~s1.settled
              THEN raceReject([s1 EXCEPT !.settled = TRUE])
              ELSE s1

\* mutant: a failure is not counted
handlerForgetsFailures(s, outcome) ==
    IF s.settled THEN s
    ELSE IF outcome.ok
         THEN LET s1 == [s EXCEPT !.settled = TRUE, !.promotions = @ + 1]
              IN raceResolve(clearAll(abortOthers(s1, outcome.index)), outcome.index)
         ELSE s

\* p.then(outcome => ...) of raceProviders
handler(s, outcome) ==
    IF s.settled THEN s
    ELSE IF outcome.ok
         THEN LET s1 == [s EXCEPT !.settled = TRUE, !.promotions = @ + 1]
              IN raceResolve(clearAll(abortOthers(s1, outcome.index)), outcome.index)
         ELSE LET s1 == [s EXCEPT !.remaining = @ - 1] IN
              IF s1.remaining = 0 /\ ~s1.settled
              THEN raceReject(clearAll([s1 EXCEPT !.settled = TRUE]))
              ELSE s1

\* mutant: the timer callback cancels the first attempt only
onTimeoutFirstOnly(s) == abortEach([s EXCEPT !.timeoutId = "fired"], <<1>>)

\* the timer callback
onTimeout(s) == abortEach([s EXCEPT !.timeoutId = "fired"], [j \in DOMAIN s.attempts |-> j])

\* requestStream(provider, ..., perControllers[i].signal) up to its await fetch
startAttempt(s, i) ==
    LET l == linkSignals(IF s.perControllers[i].aborted THEN "aborted" ELSE "live", FALSE)
        s1 == [s EXCEPT !.abortController[i].aborted = l.abortNow,
                        !.unlink[i] = l.listening,
                        !.attempts[i].phase = "fetching"]
    IN IF l.abortNow
       THEN [reject(s1, i, "abort") EXCEPT !.attempts[i].phase = "done"]
       ELSE s1

RECURSIVE startAttempts(_, _)
startAttempts(s, js) ==
    IF js = <<>> THEN s ELSE startAttempts(startAttempt(s, Head(js)), Tail(js))

\* mutant: the race goes on with the controllers of the race before it
startRaceKeepsControllers(s, outer) ==
    LET n == Len(s.attempts)
        links == [i \in 1..n |-> linkSignals(outer, s.perControllers[i].aborted)]
        s1 == [s EXCEPT
                 !.perControllers = [i \in 1..n |->
                     [aborted |-> s.perControllers[i].aborted \/ links[i].abortNow,
                      calls |-> s.perControllers[i].calls + IF links[i].abortNow THEN 1 ELSE 0]],
                 !.unlinks = [i \in 1..n |-> links[i].listening],
                 !.timeoutId = "armed",
                 !.settled = FALSE,
                 !.remaining = n]
    IN startAttempts(s1, [j \in 1..n |-> j])

\* raceProviders up to its returned promise
startRace(s, outer) ==
    LET n == Len(s.attempts)
        links == [i \in 1..n |-> linkSignals(outer, FALSE)]
        s1 == [s EXCEPT
                 !.perControllers = [i \in 1..n |->
                     [aborted |-> links[i].abortNow,
                      calls |-> IF links[i].abortNow THEN 1 ELSE 0]],
                 !.unlinks = [i \in 1..n |-> links[i].listening],
                 !.timeoutId = "armed",
                 !.settled = FALSE,
                 !.remaining = n]
    IN startAttempts(s1, [j \in 1..n |-> j])

\* the abort event of the outer signal: the listeners of linkSignals, in order
RECURSIVE outerListeners(_, _)
outerListeners(s, js) ==
    IF js = <<>> THEN s
    ELSE LET i == Head(js)
             s1 == [s EXCEPT !.unlinks[i] = FALSE]
         IN outerListeners(
                IF ~s.unlinks[i] THEN s
                ELSE IF onAbort(s1.perControllers[i].aborted) THEN abortPer(s1, i) ELSE s1,
                Tail(js))


\* -------------------------------------------------------------------- Init
\* name: `Provider-${i}`
name(p) == <<"Provider-1", "Provider-2", "Provider-3", "Provider-4">>[p]

\* a variable of the environment: JUndefined when it is not set, or JString(text)
Slash == "/"

\* process.env[...] || ''
orEmpty(v) == IF v.t = "undefined" THEN <<>> ELSE v.v

\* baseUrl.replace(/\/+$/, '')
RECURSIVE stripSlashes(_)
stripSlashes(t) ==
    IF t # <<>> /\ t[Len(t)] = Slash THEN stripSlashes(SubSeq(t, 1, Len(t) - 1)) ELSE t

\* mutant: the variables are taken as they are, without trim()
slotUntrimmed(e, i) ==
    LET baseUrl == orEmpty(e[i].BASE_URL)
        apiKey == orEmpty(e[i].KEY)
        model == orEmpty(e[i].MODEL)
    IN IF baseUrl = <<>> \/ apiKey = <<>> \/ model = <<>> THEN <<>>
       ELSE <<[id |-> i, name |-> name(i), baseUrl |-> stripSlashes(baseUrl),
               apiKey |-> apiKey, model |-> model,
               headers |-> [Authorization |-> <<"Bearer", SP>> \o apiKey]]>>

\* one pass of the loop of getProviders: what slot i pushes
slot(e, i) ==
    LET baseUrl == trim(orEmpty(e[i].BASE_URL))
        apiKey == trim(orEmpty(e[i].KEY))
        model == trim(orEmpty(e[i].MODEL))
    IN IF baseUrl = <<>> \/ apiKey = <<>> \/ model = <<>> THEN <<>>
       ELSE <<[id |-> i, name |-> name(i), baseUrl |-> stripSlashes(baseUrl),
               apiKey |-> apiKey, model |-> model,
               headers |-> [Authorization |-> <<"Bearer", SP>> \o apiKey]]>>

\* for (let i = 1; i <= MAX; i++)
RECURSIVE slotsFrom(_, _)
slotsFrom(e, i) == IF i > MAX THEN <<>> ELSE slot(e, i) \o slotsFrom(e, i + 1)

getProviders(e) == slotsFrom(e, 1)

\* new Response(JSON.stringify({ error, message }), { status })
Response(status, error, message) ==
    [status |-> status, body |-> [error |-> error, message |-> message]]
NoResponse == Response(0, "none", <<>>)

\* the errors POST answers with
InvalidJSON == "the request body is not valid JSON"
InvalidMessages == "the messages are not valid"
NoProviders == "no provider is configured"
InternalError == "internal server error"
TypeError == <<"Cannot destructure property 'messages' of 'body' as it is null.">>

\* mutant: the race is started with whatever getProviders() returned
postUnchecked(body, e) ==
    IF body.t = "SyntaxError"
    THEN [answer |-> Response(400, InvalidJSON, <<>>), loaded |-> FALSE,
          providers |-> <<>>, race |-> FALSE]
    ELSE IF Nullish(body)
    THEN [answer |-> Response(500, InternalError, TypeError), loaded |-> FALSE,
          providers |-> <<>>, race |-> FALSE]
    ELSE IF Prop(body, "messages").t # "array" \/ Prop(body, "messages").a = <<>>
    THEN [answer |-> Response(400, InvalidMessages, <<>>), loaded |-> FALSE,
          providers |-> <<>>, race |-> FALSE]
    ELSE [answer |-> NoResponse, loaded |-> TRUE, providers |-> getProviders(e),
          race |-> TRUE]

\* POST from the settling of req.json() to its early return or to the call of
\* raceWithRetry: a body that does not parse, the destructuring of the body
\* (which throws on null, into the outer catch), the check of messages, and
\* the check of getProviders()
post(body, e) ==
    IF body.t = "SyntaxError"
    THEN [answer |-> Response(400, InvalidJSON, <<>>), loaded |-> FALSE,
          providers |-> <<>>, race |-> FALSE]
    ELSE IF Nullish(body)
    THEN [answer |-> Response(500, InternalError, TypeError), loaded |-> FALSE,
          providers |-> <<>>, race |-> FALSE]
    ELSE IF Prop(body, "messages").t # "array" \/ Prop(body, "messages").a = <<>>
    THEN [answer |-> Response(400, InvalidMessages, <<>>), loaded |-> FALSE,
          providers |-> <<>>, race |-> FALSE]
    ELSE IF getProviders(e) = <<>>
    THEN [answer |-> Response(500, NoProviders, <<>>), loaded |-> TRUE,
          providers |-> <<>>, race |-> FALSE]
    ELSE [answer |-> NoResponse, loaded |-> TRUE, providers |-> getProviders(e),
          race |-> TRUE]

\* a slot of the environment with its three variables set, and one with none
FullSlot(key) ==
    [BASE_URL |-> JString(<<"u">>), KEY |-> JString(key), MODEL |-> JString(<<"m">>)]
NoSlot == [BASE_URL |-> JUndefined, KEY |-> JUndefined, MODEL |-> JUndefined]
KeyA == <<"k", "a">>

\* the environment in which exactly the slots of ps are configured
ConfigOf(ps) ==
    [i \in 1..MAX |-> IF \E k \in DOMAIN ps : ps[k] = i THEN FullSlot(KeyA) ELSE NoSlot]

\* a request with one message
UserMessage == JObject([role |-> JString("user"), content |-> JString("hi")])
GoodRequest == JObject([messages |-> JArray(<<UserMessage>>)])

\* the lists of slots the race is run with, at most MaxProviders of the MAX
ProviderLists == {[k \in 1..m |-> k] : m \in 1..(IF MaxProviders < MAX THEN MaxProviders ELSE MAX)}

\* POST has been called and awaits req.json(); the state of an attempt that
\* has not been made is kept for every provider the environment configures
InitPost(e, body) ==
    /\ env = e
    /\ req = body
    /\ loaded = FALSE
    /\ http = NoResponse
    /\ providers = <<>>
    /\ outerSignal = [aborted |-> FALSE]
    /\ raceStarted = FALSE
    /\ perControllers = [i \in DOMAIN getProviders(e) |-> [aborted |-> FALSE, calls |-> 0]]
    /\ unlinks = [i \in DOMAIN getProviders(e) |-> FALSE]
    /\ timeoutId = "none"
    /\ abortController = [i \in DOMAIN getProviders(e) |-> [aborted |-> FALSE]]
    /\ unlink = [i \in DOMAIN getProviders(e) |-> FALSE]
    /\ attempts = [i \in DOMAIN getProviders(e) |-> NewAttempt]
    /\ microtasks = <<>>
    /\ settled = FALSE
    /\ remaining = 0
    /\ racePromise = [state |-> "pending", winner |-> 0, error |-> NoError]
    /\ promotions = 0
    /\ firstMeaningful = 0
    /\ attempt = 0
    /\ loop = "idle"
    /\ lastErr = NoError
    /\ res = [race |-> 0, index |-> 0]
    /\ thrown = NoError
    /\ delays = 0
    /\ response = <<>>

\* a well-formed request, with the slots of ps configured
InitWith(ps) == InitPost(ConfigOf(ps), GoodRequest)

Init == \E ps \in ProviderLists : InitWith(ps)

\* ----------------------------------------------------------------- actions
\* A task starts only when no microtask is left.
Idle == microtasks = <<>>

\* POST -> raceWithRetry -> raceProviders(providers, ..., req.signal): the
\* first pass of the loop
StartRace ==
    /\ ~raceStarted
    /\ http = NoResponse
    /\ Idle
    /\ post(req, env).race
    /\ loaded' = TRUE
    /\ providers' = post(req, env).providers
    /\ raceStarted' = TRUE
    /\ attempt' = 1
    /\ loop' = "racing"
    /\ LET n == Len(post(req, env).providers)
           fresh == [St EXCEPT
                       !.perControllers = [i \in 1..n |-> [aborted |-> FALSE, calls |-> 0]],
                       !.unlinks = [i \in 1..n |-> FALSE],
                       !.abortController = [i \in 1..n |-> [aborted |-> FALSE]],
                       !.unlink = [i \in 1..n |-> FALSE],
                       !.attempts = [i \in 1..n |-> NewAttempt]]
       IN Commit(startRace(fresh, IF outerSignal.aborted THEN "aborted" ELSE "live"))
    /\ UNCHANGED <<env, req, http, outerSignal, firstMeaningful, lastErr, res, thrown,
                   delays, response>>

\* req.json() settles and POST returns before any race: the body does not
\* parse, the messages are not a list with an element, or no provider is
\* configured
PostAnswers ==
    /\ ~raceStarted
    /\ http = NoResponse
    /\ Idle
    /\ ~post(req, env).race
    /\ loaded' = post(req, env).loaded
    /\ providers' = post(req, env).providers
    /\ http' = post(req, env).answer
    /\ UNCHANGED <<env, req, outerSignal, raceStarted, perControllers, unlinks, timeoutId,
                   abortController, unlink, attempts, microtasks, settled, remaining,
                   racePromise, promotions, firstMeaningful, retryVars>>

\* the client goes away: req.signal fires abort
OuterAbort ==
    /\ ~outerSignal.aborted
    /\ Idle
    /\ outerSignal' = [aborted |-> TRUE]
    /\ Commit(outerListeners(St, [j \in Indices |-> j]))
    /\ UNCHANGED <<env, req, loaded, http, providers, raceStarted, firstMeaningful, retryVars>>

\* RACE_TIMEOUT_MS have elapsed since setTimeout: the timer callback runs
TimerFires ==
    /\ timeoutId = "armed"
    /\ Idle
    /\ Commit(onTimeout(St))
    /\ UNCHANGED <<env, req, loaded, http, providers, outerSignal, raceStarted, firstMeaningful, retryVars>>

Fetching(i) == Idle /\ i \in Indices /\ attempts[i].phase = "fetching"

\* fetch resolves with res.ok and a body
FetchOk(i) ==
    /\ Fetching(i)
    /\ Commit(onResponseOk(St, i))
    /\ UNCHANGED <<env, req, loaded, http, providers, outerSignal, raceStarted, firstMeaningful, retryVars>>

\* fetch resolves with !res.ok or no body: await res.text()
FetchHttpError(i) ==
    /\ Fetching(i)
    /\ Commit([St EXCEPT !.attempts[i].phase = "errbody"])
    /\ UNCHANGED <<env, req, loaded, http, providers, outerSignal, raceStarted, firstMeaningful, retryVars>>

\* res.text() settles: reject(new Error(`[name] HTTP status - body`))
ErrBodyRead(i, bodyTxt) ==
    /\ Idle
    /\ attempts[i].phase = "errbody"
    /\ Commit([reject(St, i, "http") EXCEPT
                  !.attempts[i].phase = "done",
                  !.attempts[i].bodyTxt = IF attempts[i].promise = "pending" THEN bodyTxt ELSE @])
    /\ UNCHANGED <<env, req, loaded, http, providers, outerSignal, raceStarted, firstMeaningful, retryVars>>

\* fetch rejects (DNS, connection refused, ...): the outer catch
FetchNetworkError(i) ==
    /\ Fetching(i)
    /\ Commit([reject(St, i, "network") EXCEPT !.attempts[i].phase = "done"])
    /\ UNCHANGED <<env, req, loaded, http, providers, outerSignal, raceStarted, firstMeaningful, retryVars>>

Streaming(i) == Idle /\ i \in Indices /\ attempts[i].phase = "streaming"

\* text of an enqueued item (the inverse of encode) and its frame
RECURSIVE textOf(_)
textOf(bytes) ==
    IF bytes = <<>> THEN <<>>
    ELSE IF Len(bytes) >= 2 /\ SubSeq(bytes, 1, 2) = <<LeadByte, TrailByte>>
         THEN <<EAcute>> \o textOf(Drop(bytes, 2))
    ELSE IF Len(bytes) >= 3 /\ SubSeq(bytes, 1, 3) = <<"EF", "BF", "BD">>
         THEN <<Replacement>> \o textOf(Drop(bytes, 3))
    ELSE <<Head(bytes)>> \o textOf(Tail(bytes))

frameOf(item) == LET t == textOf(item) IN SubSeq(t, 1, Len(t) - 2)

\* reader.read() resolves with a chunk
ReadChunk(i, value) ==
    /\ Streaming(i)
    /\ LET s == onChunk(St, i, value)
           new == {k \in (Len(attempts[i].out) + 1)..Len(s.attempts[i].out) :
                       isMeaningfulSSEFrame(frameOf(s.attempts[i].out[k]))}
       IN /\ Commit(s)
          /\ firstMeaningful' = IF firstMeaningful = 0 /\ new # {} THEN i
                                ELSE firstMeaningful
    /\ UNCHANGED <<env, req, loaded, http, providers, outerSignal, raceStarted, retryVars>>

\* reader.read() resolves with done: the upstream closed
ReadDone(i) ==
    /\ Streaming(i)
    /\ Commit(onDone(St, i))
    /\ UNCHANGED <<env, req, loaded, http, providers, outerSignal, raceStarted, firstMeaningful, retryVars>>

\* reader.read() rejects: the connection dropped
ReadError(i) ==
    /\ Streaming(i)
    /\ Commit(pumpCatch(St, i, "readerror"))
    /\ UNCHANGED <<env, req, loaded, http, providers, outerSignal, raceStarted, firstMeaningful, retryVars>>

\* raceWithRetry as one record
Retry ==
    [attempt |-> attempt, loop |-> loop, lastErr |-> lastErr, res |-> res,
     thrown |-> thrown, delays |-> delays]

CommitRetry(r) ==
    /\ attempt' = r.attempt
    /\ loop' = r.loop
    /\ lastErr' = r.lastErr
    /\ res' = r.res
    /\ thrown' = r.thrown
    /\ delays' = r.delays

\* the error thrown after the loop
finalError(err) ==
    Error(<<"no usable stream after", ToString(MAX_RETRY_COUNT), "attempts:">> \o err.message)

\* lastErr = err: the error object of the race of pass k
caught(err, k) == [message |-> err.message, race |-> k]

\* mutant: only the error of the first race is kept
awaitRaceKeepsFirst(r, race) ==
    IF r.loop # "racing" \/ race.state = "pending" THEN r
    ELSE IF race.state = "resolved"
         THEN [r EXCEPT !.loop = "returned", !.res = [race |-> r.attempt, index |-> race.winner]]
         ELSE LET r1 == IF r.attempt = 1
                        THEN [r EXCEPT !.lastErr = caught(race.error, r.attempt)] ELSE r IN
              IF r.attempt < MAX_RETRY_COUNT
              THEN [r1 EXCEPT !.loop = "delay", !.delays = @ + 1]
              ELSE [r1 EXCEPT !.loop = "thrown", !.thrown = finalError(r1.lastErr)]

\* mutant: the loop goes on to the delay after a race that produced a winner
awaitRaceDelaysAlways(r, race) ==
    IF r.loop # "racing" \/ race.state = "pending" THEN r
    ELSE IF r.attempt < MAX_RETRY_COUNT
         THEN [r EXCEPT !.lastErr = caught(race.error, r.attempt), !.loop = "delay",
                        !.delays = @ + 1]
         ELSE IF race.state = "resolved"
              THEN [r EXCEPT !.loop = "returned",
                             !.res = [race |-> r.attempt, index |-> race.winner]]
              ELSE [r EXCEPT !.lastErr = caught(race.error, r.attempt), !.loop = "thrown",
                             !.thrown = finalError(race.error)]

\* raceWithRetry after await raceProviders(...) has settled: return res, or
\* the catch block, and the throw after the last pass
awaitRace(r, race) ==
    IF r.loop # "racing" \/ race.state = "pending" THEN r
    ELSE IF race.state = "resolved"
         THEN [r EXCEPT !.loop = "returned", !.res = [race |-> r.attempt, index |-> race.winner]]
         ELSE LET r1 == [r EXCEPT !.lastErr = caught(race.error, r.attempt)] IN
              IF r.attempt < MAX_RETRY_COUNT
              THEN [r1 EXCEPT !.loop = "delay", !.delays = @ + 1]
              ELSE [r1 EXCEPT !.loop = "thrown", !.thrown = finalError(r1.lastErr)]

\* new Response(readableStream, { headers: { ..., 'X-Provider-Used': providerName } })
StreamResponse(providerName) ==
    [status |-> 200, headers |-> [XProviderUsed |-> providerName], body |-> "readableStream"]

\* POST after await raceWithRetry(...): the stream of the winner, or the catch
\* block with the message of the error
answer(r, ps) ==
    IF r.loop = "returned" THEN StreamResponse(ps[r.res.index].name)
    ELSE IF r.loop = "thrown" THEN Response(500, InternalError, r.thrown.message)
    ELSE NoResponse

\* one microtask: the coordinator handles the oldest outcome; when that
\* settles the race, raceWithRetry resumes, and POST when that has settled
HandleOutcome ==
    /\ microtasks # <<>>
    /\ LET s == handler([St EXCEPT !.microtasks = Tail(@)], Head(microtasks))
           r == awaitRace(Retry, s.racePromise)
       IN Commit(s) /\ CommitRetry(r) /\ http' = answer(r, providers)
    /\ UNCHANGED <<env, req, loaded, providers, outerSignal, raceStarted, firstMeaningful,
                   response>>

\* RETRY_DELAY_MS have elapsed: the next pass of the loop calls raceProviders
RetryDelayElapses ==
    /\ loop = "delay"
    /\ Idle
    /\ attempt' = attempt + 1
    /\ loop' = "racing"
    /\ firstMeaningful' = 0
    /\ LET fresh == [St EXCEPT
                       !.attempts = [i \in Indices |-> NewAttempt],
                       !.abortController = [i \in Indices |-> [aborted |-> FALSE]],
                       !.unlink = [i \in Indices |-> FALSE],
                       !.racePromise = [state |-> "pending", winner |-> 0, error |-> NoError],
                       !.promotions = 0]
       IN \E s \in {startRace(fresh, IF outerSignal.aborted THEN "aborted" ELSE "live")} :
              Commit(s)
    /\ UNCHANGED <<env, req, loaded, http, providers, outerSignal, raceStarted, lastErr, res,
                   thrown, delays, response>>

\* the stream raceWithRetry returned: new Response(readableStream, ...)
readableStream == attempts[res.index].out

\* the caller reads the next item of the response body
Deliver ==
    /\ loop = "returned"
    /\ Idle
    /\ res.race = attempt
    /\ Len(response) < Len(readableStream)
    /\ response' = Append(response, [race |-> attempt, index |-> res.index,
                                      item |-> readableStream[Len(response) + 1]])
    /\ UNCHANGED <<env, req, loaded, http, providers, outerSignal, raceStarted, perControllers, unlinks, timeoutId,
                   abortController, unlink, attempts, microtasks, settled, remaining,
                   racePromise, promotions, firstMeaningful,
                   attempt, loop, lastErr, res, thrown, delays>>

\* ------------------------------------------------------- what upstream sends
ContentDoc == "{\"choices\":[{\"delta\":{\"content\":\"hi\"}}]}"
RoleDoc == "{\"choices\":[{\"delta\":{\"role\":\"assistant\"}}]}"
Blank == <<LF, LF>>
Heartbeat == <<":">> \o Blank
ContentEvent == DataPrefix \o <<SP, ContentDoc>>
\* a comment, a role-only delta and the [DONE] sentinel: three events without content
Quiet == Heartbeat \o DataPrefix \o <<SP, RoleDoc>> \o Blank \o DataPrefix \o <<SP>> \o DONE \o Blank
\* a chunk may end in the middle of an event: the blank line comes with a later chunk
RaceChunks == {Quiet \o ContentEvent, ContentEvent \o Blank, Blank}

Seqs(S, k) == {<<>> \o f : f \in [1..k -> S]}

SegBytes == {"a", CR, LF, LeadByte, TrailByte}
SegChunks(room) == UNION {Seqs(SegBytes, k) : k \in 1..room}

RECURSIVE join(_)
join(lines) ==
    IF Len(lines) = 1 THEN lines[1] ELSE lines[1] \o <<LF>> \o join(Tail(lines))

DetLines ==
    {<<":">>, <<":">> \o DataPrefix \o <<SP, ContentDoc>>,
     <<"x">>, DONE, <<ContentDoc>>, <<"d", "a", "t", "a">>, <<"d", "a", "t", "a", SP, ContentDoc>>,
     <<SP>> \o DataPrefix \o <<"x">>,
     DataPrefix, DataPrefix \o <<SP>>, DataPrefix \o <<SP, SP, TAB>>,
     DataPrefix \o DONE, DataPrefix \o <<SP>> \o DONE, DataPrefix \o <<SP>> \o DONE \o <<SP>>,
     DataPrefix \o DONE \o <<"x">>, DataPrefix \o <<SP, "x">>,
     DataPrefix \o <<ContentDoc>>, DataPrefix \o <<SP, ContentDoc>>,
     DataPrefix \o <<SP, RoleDoc>>}
DetChunks == {join(ls) \o Blank : ls \in UNION {Seqs(DetLines, k) : k \in 1..MaxLines}}

\* events whose data payloads are the JSON documents of the model, with
\* comment, blank, [DONE] and plain-text lines around them
JsonLines ==
    {<<":">>, DataPrefix, DataPrefix \o <<SP>> \o DONE, DataPrefix \o <<SP, "x">>}
    \cup {DataPrefix \o <<SP, d>> : d \in DOMAIN JSONDocs}
JsonChunks == {join(ls) \o Blank : ls \in UNION {Seqs(JsonLines, k) : k \in 1..MaxLines}}

\* the caller cancels the body of the response
CancelResponse ==
    /\ loop = "returned"
    /\ Idle
    /\ res.race = attempt
    /\ ~attempts[res.index].closed
    /\ Commit(cancel(St, res.index))
    /\ UNCHANGED <<env, req, loaded, http, providers, outerSignal, raceStarted, firstMeaningful, retryVars>>

\* a line with a payload of plain text, and the line endings, as units of a stream
RECURSIVE concat(_)
concat(ss) == IF ss = <<>> THEN <<>> ELSE Head(ss) \o concat(Tail(ss))

WinUnits == {DataPrefix \o <<"x">>, <<CR>>, <<LF>>}
units(t) == Cardinality({k \in 1..Len(t) : t[k] \in {"x", CR, LF}})
WinChunks(room) == {concat(us) : us \in UNION {Seqs(WinUnits, k) : k \in 1..room}}

\* ------------------------------------------------------------ specifications
RECURSIVE sumReads(_)
sumReads(as) == IF as = <<>> THEN 0 ELSE Head(as).reads + sumReads(Tail(as))

\* The race, with at most MaxReads chunks read in all.
RaceRead(i) ==
    \E value \in RaceChunks : sumReads(attempts) < MaxReads /\ ReadChunk(i, value)

Next ==
    \/ StartRace
    \/ OuterAbort
    \/ TimerFires
    \/ \E i \in Indices : FetchOk(i)
    \/ \E i \in Indices : FetchHttpError(i)
    \/ \E i \in Indices : ErrBodyRead(i, Unreadable)
    \/ \E i \in Indices : FetchNetworkError(i)
    \/ \E i \in Indices : RaceRead(i)
    \/ \E i \in Indices : ReadDone(i)
    \/ \E i \in Indices : ReadError(i)
    \/ HandleOutcome

Spec == Init /\ [][Next]_vars

\* One attempt, fed every byte sequence up to MaxBytes in every chunking.
SegRead ==
    1 \in Indices /\ \E value \in SegChunks(MaxBytes - Len(attempts[1].received)) : ReadChunk(1, value)

NextSeg ==
    \/ StartRace
    \/ FetchOk(1)
    \/ SegRead
    \/ ReadDone(1)
    \/ HandleOutcome

SpecSeg == InitWith(<<1>>) /\ [][NextSeg]_vars

\* One attempt, fed one event of up to MaxLines lines.
DetRead ==
    1 \in Indices /\ \E value \in DetChunks : attempts[1].reads < 1 /\ ReadChunk(1, value)

NextDet ==
    \/ StartRace
    \/ FetchOk(1)
    \/ DetRead
    \/ ReadDone(1)
    \/ HandleOutcome

SpecDet == InitWith(<<1>>) /\ [][NextDet]_vars

\* One attempt, fed one event of up to MaxLines lines with JSON payloads.
JsonRead ==
    1 \in Indices /\ \E value \in JsonChunks : attempts[1].reads < 1 /\ ReadChunk(1, value)

NextJson ==
    \/ StartRace
    \/ FetchOk(1)
    \/ JsonRead
    \/ ReadDone(1)
    \/ HandleOutcome

SpecJson == InitWith(<<1>>) /\ [][NextJson]_vars

\* The whole of raceWithRetry for two providers, and the caller reading the
\* response or giving it up.
NextRetry ==
    \/ Next
    \/ RetryDelayElapses
    \/ Deliver
    \/ CancelResponse

SpecRetry == InitWith(<<1, 2>>) /\ [][NextRetry]_vars

\* raceWithRetry for two providers with the scheduling the runtime gives: a
\* timer that is armed fires (the deadline of a race, the delay between two
\* races), and a queued promise reaction runs. What an abort does to a
\* pending fetch or read is part of the step that aborts.
NextLive ==
    \/ Next
    \/ RetryDelayElapses

SpecLive ==
    /\ InitWith(<<1, 2>>)
    /\ [][NextLive]_vars
    /\ WF_vars(TimerFires)
    /\ WF_vars(RetryDelayElapses)
    /\ WF_vars(HandleOutcome)

\* The values a variable of the environment takes: not set, empty, blank,
\* and set with white space around it; a base URL may end in slashes.
Blanks == {JUndefined, JString(<<>>), JString(<<SP, TAB>>)}
FullSlots ==
    {FullSlot(KeyA),
     [BASE_URL |-> JString(<<SP, "u", Slash, Slash>>), KEY |-> JString(<<"k", "b", LF>>),
      MODEL |-> JString(<<TAB, "m", SP>>)],
     [BASE_URL |-> JString(<<Slash>>), KEY |-> JString(KeyA), MODEL |-> JString(<<"m">>)]}
PartSlots ==
    {[FullSlot(KeyA) EXCEPT !.BASE_URL = JUndefined],
     [FullSlot(KeyA) EXCEPT !.KEY = JString(<<SP, TAB>>)],
     [FullSlot(KeyA) EXCEPT !.MODEL = JString(<<>>)],
     [NoSlot EXCEPT !.KEY = JString(KeyA)],
     NoSlot}
Envs == [1..MAX -> FullSlots \cup PartSlots]

\* what req.json() gives
Requests ==
    {SyntaxError, JNull, JNumber, JObject([isTarot |-> JNumber]),
     JObject([messages |-> JNull]), JObject([messages |-> JString("hi")]),
     JObject([messages |-> JObject([role |-> JString("user")])]),
     JObject([messages |-> JArray(<<>>)]), GoodRequest}

\* POST up to the call of raceWithRetry, for every environment and request.
NextPost ==
    \/ PostAnswers
    \/ StartRace

SpecPost == (\E e \in Envs, body \in Requests : InitPost(e, body)) /\ [][NextPost]_vars

\* The races of two providers that fail, with the error bodies upstream sends,
\* which may repeat the key they were sent.
KeyB == <<"k", "b">>
FailEnvs == {[i \in 1..MAX |-> IF i <= 2 THEN FullSlot(k[i]) ELSE NoSlot] :
                k \in [1..2 -> {KeyA, KeyB}]}
ErrorBodies(i) == {Unreadable, <<"denied">>, <<"invalid key">> \o providers[i].apiKey}

NextFail ==
    \/ StartRace
    \/ TimerFires
    \/ \E i \in Indices : FetchHttpError(i)
    \/ \E i \in Indices : \E bodyTxt \in ErrorBodies(i) : ErrBodyRead(i, bodyTxt)
    \/ \E i \in Indices : FetchNetworkError(i)
    \/ HandleOutcome
    \/ RetryDelayElapses

SpecFail == (\E e \in FailEnvs : InitPost(e, GoodRequest)) /\ [][NextFail]_vars

\* One attempt that may win, fed lines and line endings up to MaxBytes units
\* in every chunking, and the caller reading the response.
WinRead ==
    1 \in Indices /\ \E value \in WinChunks(MaxBytes - units(attempts[1].received)) : ReadChunk(1, value)

NextWin ==
    \/ StartRace
    \/ FetchOk(1)
    \/ WinRead
    \/ ReadDone(1)
    \/ HandleOutcome
    \/ Deliver

SpecWin == InitWith(<<1>>) /\ [][NextWin]_vars

\* ================================================================== claims
Winner == racePromise.winner
Won == racePromise.state = "resolved"
Lost == racePromise.state = "rejected"

\* attempt i has enqueued a frame the detector accepts
HasSpoken(i) ==
    \E k \in 1..Len(attempts[i].out) : isMeaningfulSSEFrame(frameOf(attempts[i].out[k]))

\* ---- the race (Spec)

\* C1: in one race the winner branch runs at most once, and once the race has
\* resolved with a winner, no later step changes the winner or the outcome.
C1_SingleIrreversibleWinner ==
    /\ [](promotions <= 1)
    /\ [][Won => racePromise' = racePromise]_vars

\* C1 witness: a race won by attempt 1 whose losers have since rejected, after
\* which the outer signal was aborted as well.
C1_Witness ==
    /\ Won /\ Winner = 1 /\ Len(providers) = 3 /\ Idle
    /\ outerSignal.aborted
    /\ \A j \in {2, 3} : attempts[j].promise = "rejected"

\* C2: an attempt's promise is resolved, and the race is won by it, only if its
\* stream has already emitted a frame for which isMeaningfulSSEFrame is true.
C2_WinnerOnlyOnMeaningfulFrame ==
    \A i \in Indices :
        (attempts[i].promise = "resolved" \/ (Won /\ Winner = i)) => HasSpoken(i)

\* C2 witness: the race has a winner, and another attempt has a successful
\* response that carried only frames without content and was never promoted.
C2_Witness ==
    /\ Won
    /\ HasSpoken(Winner)
    /\ \E j \in Indices :
          /\ j # Winner
          /\ Len(attempts[j].out) >= 2
          /\ ~HasSpoken(j)
          /\ attempts[j].promise # "resolved"

\* C3: once the event loop is idle again, the race is resolved with the attempt
\* whose meaningful frame was processed first.
C3_FirstMeaningfulWins ==
    (firstMeaningful # 0 /\ Idle) => (Won /\ Winner = firstMeaningful)

\* C3 witness: the last provider of three wins although the first connected
\* and spoke (without content) before it and the second had already failed.
C3_Witness ==
    /\ Idle /\ Won /\ Winner = 3 /\ firstMeaningful = 3
    /\ attempts[1].out # <<>>
    /\ attempts[2].error = "http"

\* C4: when the race is won, the controller of every other attempt is aborted
\* and the winner's is not.
C4_LosersAbortedWinnerSpared ==
    Won => \A j \in Indices : perControllers[j].aborted <=> (j # Winner)

\* C4 witness: A wins after a heartbeat and then a real frame, B had failed
\* with an HTTP error, C never responded.
C4_Witness ==
    /\ Won /\ Len(providers) = 3
    /\ Len(attempts[Winner].out) >= 2
    /\ ~isMeaningfulSSEFrame(frameOf(attempts[Winner].out[1]))
    /\ \E b, c \in Indices \ {Winner} :
          /\ attempts[b].error = "http"
          /\ attempts[c].error = "abort" /\ ~attempts[c].closed /\ attempts[c].reads = 0

\* C5 as stated: when a race has ended, every non-winning attempt's controller
\* has had abort() called exactly once.
C5_ExactlyOnceAlways ==
    (racePromise.state # "pending" /\ Idle) =>
        \A i \in Indices : (Won /\ Winner = i) \/ perControllers[i].calls = 1

\* some attempt was cancelled rather than failing on its own
SomeCancelled == \E j \in Indices : abortController[j].aborted

\* C5 amended: abort() is called at most once on each attempt's controller;
\* exactly once on every non-winner (and never on the winner) when the race is
\* won; and when the race fails, once on every attempt if the deadline or the
\* outer signal ended it, never if every attempt failed on its own.
C5_AtMostOnce ==
    /\ \A i \in Indices : perControllers[i].calls <= 1
    /\ Won => \A i \in Indices : perControllers[i].calls = IF i = Winner THEN 0 ELSE 1
    /\ Lost => \A i \in Indices : perControllers[i].calls = IF SomeCancelled THEN 1 ELSE 0
    /\ timeoutId = "fired" => \A i \in Indices : perControllers[i].calls = 1

\* C5 witness: a race of three that the deadline ended after one attempt had
\* failed on its own.
C5_Witness ==
    /\ Lost /\ Idle /\ timeoutId = "fired" /\ Len(providers) = 3
    /\ \E i \in Indices : attempts[i].error = "network"
    /\ \A i \in Indices : perControllers[i].calls = 1

\* the attempts that have not failed
NotFailed == {i \in Indices : attempts[i].promise # "rejected"}

\* C14: the race is rejected only when every attempt has failed, and while it
\* is undecided the count of attempts still awaited is the number of attempts
\* that have not failed: each failure is counted once and none ends the race
\* while another attempt is pending.
C14_FailsOnlyWhenAllFailed ==
    /\ Lost => (NotFailed = {} /\ remaining = 0)
    /\ (raceStarted /\ Idle /\ ~settled) => remaining = Cardinality(NotFailed)
    /\ (raceStarted /\ Idle /\ NotFailed # {}) => ~Lost

\* C14 witness: two of three attempts have failed, one on an HTTP error and one
\* on a stream that closed without content, and the race still waits for the
\* third, which is streaming.
C14_Witness ==
    /\ Idle /\ racePromise.state = "pending" /\ remaining = 1
    /\ \E a, b, c \in Indices :
          /\ attempts[a].error = "http"
          /\ attempts[b].error = "nomeaningful"
          /\ attempts[c].phase = "streaming" /\ attempts[c].out # <<>>

\* C15: when the deadline has fired, every attempt has been cancelled and has
\* failed, no attempt has been or is promoted, and the race is rejected as soon
\* as the outcomes have been handled.
C15_DeadlineEndsTheRace ==
    timeoutId = "fired" =>
        /\ \A i \in Indices : perControllers[i].aborted /\ attempts[i].promise = "rejected"
        /\ promotions = 0 /\ ~Won
        /\ Idle => Lost

\* C15 witness: the deadline fired on a race of three in which one attempt was
\* waiting for its response and another had received frames without content.
C15_Witness ==
    /\ timeoutId = "fired" /\ Idle /\ Lost /\ Len(providers) = 3
    /\ \E a, b \in Indices :
          /\ attempts[a].error = "abort" /\ attempts[a].reads = 0 /\ ~attempts[a].closed
          /\ attempts[b].error = "abort" /\ attempts[b].out # <<>>

\* ---- the re-segmenter (SpecSeg): one attempt, its bytes in attempts[1].received

\* the upstream bytes are whole characters, none of them malformed
ValidUTF8(bytes) ==
    LET d == decode(<<>>, bytes)
    IN d.pending = <<>> /\ \A k \in 1..Len(d.text) : d.text[k] # Replacement

\* the upstream text with every line ending (CR LF, CR, LF) written as LF
Normalized(bytes) == replaceCR(decode(<<>>, bytes).text)

\* well-formed SSE: whole characters, and every event closed by a blank line
WellFormed(bytes) ==
    /\ ValidUTF8(bytes)
    /\ LET t == Normalized(bytes) IN t = <<>> \/ endsWithBlank(t)

\* the pieces between the blank-line delimiters of an LF-only text
RECURSIVE pieces(_)
pieces(t) ==
    LET idx == indexOfBlank(t) IN
    IF idx = 0 THEN (IF t = <<>> THEN <<>> ELSE <<t>>)
    ELSE <<SubSeq(t, 1, idx - 1)>> \o pieces(Drop(t, idx + 1))

\* what the stream holds when the same bytes arrive in a single chunk
oneShot(bytes) ==
    LET s0 == [St EXCEPT !.attempts[1] = [NewAttempt EXCEPT !.phase = "streaming"]]
    IN onDone(onChunk(s0, 1, bytes), 1).attempts[1].out

StreamEnded == attempts[1].phase = "done" /\ attempts[1].closed

RECURSIVE textOfAll(_)
textOfAll(items) ==
    IF items = <<>> THEN <<>> ELSE textOf(Head(items)) \o textOfAll(Tail(items))

\* C6: for well-formed SSE text the items enqueued do not depend on how the
\* text was cut: they are those of the uncut text, the frames of the original.
C6_ChunkBoundaryInvariance ==
    (StreamEnded /\ WellFormed(attempts[1].received)) =>
        /\ attempts[1].out = oneShot(attempts[1].received)
        /\ attempts[1].out =
              LET fs == pieces(Normalized(attempts[1].received))
              IN [k \in 1..Len(fs) |-> encode(fs[k] \o Blank)]

\* C7: every item is one frame of the upstream text (a piece holding no blank
\* line) followed by one blank-line delimiter.
C7_ItemsAreWholeFrames ==
    (StreamEnded /\ ValidUTF8(attempts[1].received)) =>
        LET fs == pieces(Normalized(attempts[1].received)) IN
        \A k \in 1..Len(attempts[1].out) :
            LET t == textOf(attempts[1].out[k]) IN
            /\ Len(t) >= 2
            /\ endsWithBlank(t)
            /\ indexOfBlank(frameOf(attempts[1].out[k])) = 0
            /\ \E n \in 1..Len(fs) : fs[n] = frameOf(attempts[1].out[k])

\* C8: no CR is ever emitted, and a stream emits what the same stream with
\* every line ending replaced by LF emits.
C8_LineEndingsNormalized ==
    /\ \A k \in 1..Len(attempts[1].out) :
          \A n \in 1..Len(attempts[1].out[k]) : attempts[1].out[k][n] # CR
    /\ (StreamEnded /\ ValidUTF8(attempts[1].received)) =>
          attempts[1].out = oneShot(encode(Normalized(attempts[1].received)))

\* C9: when the upstream closes on a non-empty buffer, the stream closes with
\* everything emitted being the normalized upstream text plus one delimiter.
C9_RemainderFlushed ==
    [][(attempts[1].phase = "streaming" /\ attempts'[1].phase = "done"
          /\ attempts[1].buffer # <<>> /\ ValidUTF8(attempts[1].received))
       => (/\ attempts'[1].closed
           /\ textOfAll(attempts'[1].out) = Normalized(attempts[1].received) \o Blank)]_vars

\* ---- the detector (SpecDet): one attempt, fed one event

BeginsWithData(line) == StartsWith(line, DataPrefix)

AllWhiteSpace(p) == \A k \in 1..Len(p) : p[k] \in WhiteSpace

\* the payload is the literal [DONE], white space around it aside
IsDoneSentinel(p) ==
    \E k \in 1..Len(p) :
        /\ k + Len(DONE) - 1 <= Len(p)
        /\ SubSeq(p, k, k + Len(DONE) - 1) = DONE
        /\ AllWhiteSpace(SubSeq(p, 1, k - 1))
        /\ AllWhiteSpace(Drop(p, k + Len(DONE) - 1))

\* the frames the claim is about: empty, or no line beginning with data:, or
\* every data payload blank or [DONE]
Inert(frame) ==
    \A k \in 1..Len(split(frame)) :
        LET line == split(frame)[k] IN
        BeginsWithData(line) =>
            LET p == Drop(line, Len(DataPrefix))
            IN AllWhiteSpace(p) \/ IsDoneSentinel(p)

\* C10: isMeaningfulSSEFrame is false for the empty frame, for a frame with no
\* line beginning with data:, and for a frame whose data payloads are all blank
\* or [DONE]; an attempt that emitted only such frames has not resolved.
C10_InertFramesAreNotMeaningful ==
    /\ \A k \in 1..Len(attempts[1].out) :
          Inert(frameOf(attempts[1].out[k])) =>
              ~isMeaningfulSSEFrame(frameOf(attempts[1].out[k]))
    /\ (\A k \in 1..Len(attempts[1].out) : Inert(frameOf(attempts[1].out[k])))
          => attempts[1].promise # "resolved"

\* C10 witness: the attempt ended unresolved after an event of a comment line
\* and a data line whose payload is [DONE] with white space around it.
C10_Witness ==
    /\ attempts[1].promise = "rejected"
    /\ \E k \in 1..Len(attempts[1].out) :
          LET ls == split(frameOf(attempts[1].out[k])) IN
          /\ Len(ls) = 2
          /\ ls[1] = <<":">>
          /\ ls[2] = DataPrefix \o <<SP>> \o DONE \o <<SP>>

\* ---- the detector on JSON payloads (SpecJson, SpecDet)

\* the data payloads of a frame as a reader of the stream sees them: what
\* follows data: on each such line, white space around it aside
Payloads(frame) ==
    {trim(Drop(split(frame)[k], Len(DataPrefix))) :
        k \in {n \in 1..Len(split(frame)) : BeginsWithData(split(frame)[n])}}

ValidJSON(p) == Len(p) = 1 /\ p[1] \in DOMAIN JSONDocs

MessageDoc == "{\"choices\":[{\"message\":{\"content\":\"hi\"}}]}"
NameDoc == "{\"choices\":[{\"delta\":{\"function_call\":{\"name\":\"f\"}}}]}"
ArgumentsDoc == "{\"choices\":[{\"delta\":{\"function_call\":{\"arguments\":\"{\"}}}]}"
ToolNameDoc == "{\"choices\":[{\"delta\":{\"tool_calls\":[{\"function\":{\"name\":\"f\"}}]}}]}"
ToolArgumentsDoc == "{\"choices\":[{\"delta\":{\"tool_calls\":[{\"function\":{\"arguments\":\"{\"}}]}}]}"
EmptyNameDoc == "{\"choices\":[{\"delta\":{\"function_call\":{\"name\":\"\"}}}]}"

\* documents whose first choice's delta, or message when it has no delta,
\* carries non-empty text
WithContent == {<<ContentDoc>>, <<MessageDoc>>}

\* documents whose delta carries a call with a non-empty name or arguments
WithCall == {<<NameDoc>>, <<ArgumentsDoc>>, <<ToolNameDoc>>, <<ToolArgumentsDoc>>}

Frames == {frameOf(attempts[1].out[k]) : k \in 1..Len(attempts[1].out)}

\* C11: a frame with a JSON payload whose delta (or message) has non-empty
\* content is meaningful whatever its other lines are, and the attempt that
\* emitted it has resolved.
C11_ContentIsMeaningful ==
    \A f \in Frames :
        (Payloads(f) \cap WithContent # {}) =>
            (isMeaningfulSSEFrame(f) /\ attempts[1].promise = "resolved")

\* C11 witness: a frame of a role-only delta followed by a message with content.
C11_Witness ==
    /\ attempts[1].promise = "resolved"
    /\ \E f \in Frames :
          split(f) = <<DataPrefix \o <<SP, RoleDoc>>, DataPrefix \o <<SP, MessageDoc>>>>

\* C12: a frame with a data payload that is non-empty text, not [DONE] and not
\* valid JSON is meaningful, and the attempt that emitted it has resolved.
C12_PlainTextIsMeaningful ==
    \A f \in Frames :
        (\E p \in Payloads(f) : p # <<>> /\ p # DONE /\ ~ValidJSON(p)) =>
            (isMeaningfulSSEFrame(f) /\ attempts[1].promise = "resolved")

\* C12 witness: a frame of a role-only delta followed by a payload of plain text.
C12_Witness ==
    /\ attempts[1].promise = "resolved"
    /\ \E f \in Frames :
          split(f) = <<DataPrefix \o <<SP, RoleDoc>>, DataPrefix \o <<SP, "x">>>>

\* C13: a frame all of whose data payloads are valid JSON is meaningful only
\* if one of them carries non-empty content or a call with a non-empty name or
\* a non-empty arguments fragment.
C13_OnlyContentOrCall ==
    \A f \in Frames :
        (Payloads(f) # {} /\ (\A p \in Payloads(f) : ValidJSON(p)) /\ isMeaningfulSSEFrame(f))
            => (Payloads(f) \cap (WithContent \cup WithCall) # {})

\* ---- the response and the retry loop (SpecWin, SpecRetry, Spec)

\* C16: the caller reads the frames of the winner's upstream text, each with
\* its delimiter, in their order, from the first one on, and all of them once
\* the upstream has closed and the caller has read to the end.
C16_DeliveredInArrivalOrder ==
    loop = "returned" =>
        LET fs == pieces(Normalized(attempts[res.index].received)) IN
        /\ \A k \in 1..Len(response) :
              k <= Len(fs) /\ response[k].item = encode(fs[k] \o Blank)
        /\ (attempts[res.index].closed /\ Len(response) = Len(readableStream))
              => Len(response) = Len(fs)

\* C17: every item the caller has read comes from the stream of the attempt
\* that won the race that succeeded: from no other attempt and no earlier race.
C17_OnlyTheWinnerReachesTheCaller ==
    /\ loop = "returned" => (Won /\ res = [race |-> attempt, index |-> firstMeaningful])
    /\ \A k \in 1..Len(response) :
          /\ Won
          /\ response[k].race = attempt
          /\ response[k].index = firstMeaningful
          /\ response[k].item = attempts[firstMeaningful].out[k]

\* C17 witness: the second race was won by one attempt while the other had
\* emitted frames, and the caller has read from the response.
C17_Witness ==
    /\ loop = "returned" /\ attempt = 2 /\ response # <<>>
    /\ \E j \in Indices : j # res.index /\ attempts[j].out # <<>>

\* C18: the error of a failed race names every provider of the race and gives
\* that provider's failure reason.
C18_ErrorNamesEveryProvider ==
    Lost =>
        \A i \in Indices :
            /\ \E k \in 1..Len(racePromise.error.message) :
                  racePromise.error.message[k] = providers[i].name
            /\ \E k \in 1..Len(racePromise.error.message) :
                  racePromise.error.message[k] = attempts[i].error

\* C19: when raceWithRetry throws, it has run MAX_RETRY_COUNT races with a
\* delay between consecutive ones and none after the last, and the error it
\* throws names every provider and its failure reason.
C19_ThreeRacesThenAggregate ==
    loop = "thrown" =>
        /\ attempt = MAX_RETRY_COUNT
        /\ delays = MAX_RETRY_COUNT - 1
        /\ Lost
        /\ \A i \in Indices :
              /\ \E k \in 1..Len(thrown.message) : thrown.message[k] = providers[i].name
              /\ \E k \in 1..Len(thrown.message) : thrown.message[k] = attempts[i].error

\* C20: raceWithRetry returns the stream of the winner of the first race that
\* has one, after one delay per failed race; once it has returned it starts no
\* race and waits no delay; and a further race starts only after the one
\* before it has failed.
C20_FirstWinnerIsReturned ==
    /\ [](loop = "returned" =>
            (Won /\ res = [race |-> attempt, index |-> Winner] /\ delays = attempt - 1))
    /\ [][loop = "returned" =>
            (attempt' = attempt /\ delays' = delays /\ res' = res /\ loop' = loop)]_vars
    /\ [][attempt' # attempt =>
            (attempt' = attempt + 1 /\ (attempt > 0 => (Lost /\ loop = "delay")))]_vars

\* C20 witness: the third race has a winner after two failed races and two delays.
C20_Witness ==
    /\ loop = "returned" /\ attempt = MAX_RETRY_COUNT /\ delays = 2 /\ Idle

\* C21: the error raceWithRetry throws is built on the error of the last race
\* and states the number of races run.
C21_LastErrorAndCount ==
    loop = "thrown" =>
        /\ lastErr.race = attempt /\ attempt = MAX_RETRY_COUNT
        /\ lastErr.message = racePromise.error.message
        /\ thrown.message = <<"no usable stream after", ToString(attempt), "attempts:">>
                              \o lastErr.message

\* C21 witness: raceWithRetry has thrown after a last race that the deadline ended.
C21_Witness ==
    /\ loop = "thrown" /\ timeoutId = "fired" /\ Idle

\* ---- cancellation (Spec)

\* C22: when the outer signal is aborted while the race is undecided, abort()
\* has been called exactly once on every attempt's controller and every
\* attempt has failed; from then on no attempt reads from the network and no
\* winner is chosen: the race is rejected once the outcomes are handled.
C22_OuterAbortEndsTheRace ==
    /\ []((outerSignal.aborted /\ raceStarted /\ racePromise.state = "pending") =>
            \A i \in Indices :
                /\ perControllers[i].calls = 1
                /\ attempts[i].promise = "rejected" /\ attempts[i].phase = "done")
    /\ []((outerSignal.aborted /\ raceStarted /\ Idle) => racePromise.state # "pending")
    /\ [][(outerSignal.aborted /\ ~Won) =>
            /\ ~Won'
            /\ \A i \in Indices :
                  /\ attempts'[i].reads = attempts[i].reads
                  /\ attempts'[i].phase \in {attempts[i].phase, "done"}]_vars

\* C22 witness: the outer signal was aborted in a race of three where one
\* attempt had failed on its own, one was streaming and one was connecting.
C22_Witness ==
    /\ outerSignal.aborted /\ Lost /\ Idle /\ timeoutId = "cleared" /\ Len(providers) = 3
    /\ \A i \in Indices : perControllers[i].calls = 1
    /\ \E a, b, c \in Indices :
          /\ attempts[a].error = "network"
          /\ attempts[b].error = "abort" /\ attempts[b].out # <<>>
          /\ attempts[c].error = "abort" /\ attempts[c].reads = 0 /\ ~attempts[c].closed

\* an attempt with a request or a stream under way
InFlight(i) == attempts[i].phase \in {"fetching", "errbody", "streaming"}

\* C23: whenever the outer signal has been aborted, the AbortController of
\* every attempt in flight has been aborted, the winner's included.
C23_OuterAbortReachesEveryAttempt ==
    (outerSignal.aborted /\ raceStarted) =>
        \A i \in Indices : InFlight(i) => abortController[i].aborted

NonBlank(v) == v.t = "string" /\ \E k \in 1..Len(v.v) : v.v[k] \notin WhiteSpace

Configured(i) == NonBlank(env[i].BASE_URL) /\ NonBlank(env[i].KEY) /\ NonBlank(env[i].MODEL)

\* the text of a variable without the white space around it
Inner(v, text) ==
    \E a, b \in 0..Len(v.v) :
        /\ a + Len(text) + b = Len(v.v)
        /\ \A k \in 1..Len(v.v) :
              IF k <= a \/ k > a + Len(text) THEN v.v[k] \in WhiteSpace ELSE v.v[k] = text[k - a]
        /\ text[1] \notin WhiteSpace /\ text[Len(text)] \notin WhiteSpace

\* C25: the list getProviders returns holds exactly the slots of 1..MAX whose
\* base URL, key and model are all non-blank after trimming, in increasing
\* slot order; it has at most MAX entries; an entry carries the key and the
\* model of its own slot, trimmed, and its name; so the list is a function of
\* the environment alone.
C25_ExactlyTheConfiguredSlots ==
    loaded =>
        /\ {providers[k].id : k \in DOMAIN providers} = {i \in 1..MAX : Configured(i)}
        /\ \A j, k \in DOMAIN providers : j < k => providers[j].id < providers[k].id
        /\ Len(providers) \in 0..MAX
        /\ \A k \in DOMAIN providers :
              /\ Inner(env[providers[k].id].KEY, providers[k].apiKey)
              /\ Inner(env[providers[k].id].MODEL, providers[k].model)
              /\ providers[k].name = name(providers[k].id)

\* C25 witness: slots 2 and 4 are listed; slot 1 has a key only and slot 3 has
\* a key of white space.
C25_Witness ==
    /\ loaded /\ Len(providers) = 2
    /\ providers[1].id = 2 /\ providers[2].id = 4
    /\ env[1] = [NoSlot EXCEPT !.KEY = JString(KeyA)]
    /\ env[3].KEY = JString(<<SP, TAB>>) /\ NonBlank(env[3].MODEL)
    /\ env[2].KEY = JString(<<"k", "b", LF>>)

NoneConfigured == \A i \in 1..MAX : ~Configured(i)

\* the body is an object whose messages are a list with an element
WellFormedRequest ==
    /\ req.t = "object"
    /\ "messages" \in DOMAIN req.f
    /\ req.f.messages.t = "array"
    /\ req.f.messages.a # <<>>

NothingStarted ==
    /\ ~raceStarted /\ attempt = 0
    /\ timeoutId = "none"
    /\ \A i \in DOMAIN attempts : attempts[i].phase = "idle"

\* C26: when no provider is configured, a request that passes the checks of
\* its body is answered with the 5xx JSON error of the missing configuration,
\* and no race is started, no upstream request issued and no timer armed.
C26_NoProviderNoRace ==
    (NoneConfigured /\ WellFormedRequest) =>
        /\ NothingStarted
        /\ http # NoResponse =>
              /\ http.status \in 500..599
              /\ http.body = [error |-> NoProviders, message |-> <<>>]

\* C26 witness: POST has answered 500 in an environment where slots are set in
\* part only.
C26_Witness ==
    /\ NoneConfigured /\ WellFormedRequest /\ loaded /\ http.status = 500
    /\ \E i, j \in 1..MAX : NonBlank(env[i].KEY) /\ NonBlank(env[j].BASE_URL)

\* C27: a request whose body is not JSON, or whose messages are missing, not a
\* list or an empty list, is answered with a 4xx JSON error, and the provider
\* configuration is not read and no upstream request issued.
C27_MalformedRequestIs4xx ==
    ~WellFormedRequest =>
        /\ ~loaded /\ NothingStarted
        /\ http # NoResponse => http.status \in 400..499

\* ---- memory (SpecWin)
\* the frames enqueued on the output stream of attempt i that nobody has read:
\* only the stream raceWithRetry returned has a reader
Backlog(i) ==
    Len(attempts[i].out)
        - (IF loop = "returned" /\ res.race = attempt /\ res.index = i THEN Len(response) ELSE 0)

\* C28: the pump reads the next upstream chunk only when the consumer has
\* drained the output stream, which is what would keep the frames held by an
\* attempt bounded.
C28_ReadsOnlyAsTheConsumerDrains ==
    [][\A i \in Indices :
          (i \in DOMAIN attempts' /\ attempts'[i].reads > attempts[i].reads) => Backlog(i) = 0]_vars

\* ---- the answer after total failure (SpecFail)
\* C29: the body of the error response sent after the last race has failed
\* is one fixed value: it is the same whatever keys the environment holds and
\* whatever error bodies the providers returned.
C29_ErrorBodyIsFixed ==
    loop = "thrown" =>
        http = Response(500, InternalError,
                        <<"no usable stream after", ToString(MAX_RETRY_COUNT), "attempts:",
                          AllFailedText>>)

\* C29 witness: the error response has been sent after a last race in which
\* one provider returned an error body that repeats its key and the other a
\* different body.
C29_Witness ==
    /\ loop = "thrown" /\ http.status = 500
    /\ attempts[1].bodyTxt = <<"invalid key">> \o KeyB
    /\ attempts[2].bodyTxt = <<"denied">>
    /\ providers[2].apiKey = KeyA

\* ---- the deadline after the race (SpecRetry)
\* C30: a race that has settled, with a winner or with failure, has no armed
\* timer, and the timer callback runs only in a race that has not settled: so
\* it aborts neither the winner's stream nor an attempt of a later race.
C30_SettledRaceHasNoTimer ==
    /\ [](racePromise.state # "pending" => timeoutId # "armed")
    /\ [][(timeoutId' = "fired" /\ timeoutId # "fired")
             => (racePromise.state = "pending" /\ ~settled /\ timeoutId = "armed"
                 /\ loop = "racing")]_vars

\* C30 witness: the first race failed before its deadline, and the stream of
\* the winner of the second race is being relayed with the timer cleared.
C30_Witness ==
    /\ loop = "returned" /\ attempt = 2 /\ delays = 1
    /\ timeoutId = "cleared" /\ response # <<>>
    /\ ~attempts[res.index].closed /\ ~perControllers[res.index].aborted

\* ---- one race after another (SpecRetry)
\* an attempt that has come to its end: it has failed and reads no more
Terminated(i) ==
    /\ attempts[i].promise = "rejected"
    /\ attempts[i].phase = "done"
    /\ attempts[i].reads > 0 => attempts[i].closed

\* C31: when raceWithRetry starts the next race, every attempt of the race
\* before it has terminated, its timer is not armed and none of its listeners
\* is left on the external signal; the new race has controllers that are
\* aborted only if the external signal is, a timer of its own, the failure
\* counter at the number of providers, and attempts that have read nothing.
C31_RacesDoNotOverlap ==
    [][attempt' = attempt + 1 /\ attempt >= 1 =>
          /\ \A i \in Indices : Terminated(i)
          /\ timeoutId # "armed" /\ \A i \in Indices : ~unlinks[i]
          /\ racePromise.state = "rejected" /\ microtasks = <<>>
          /\ timeoutId' = "armed" /\ ~settled' /\ remaining' = Len(providers)
          /\ racePromise'.state = "pending"
          /\ \A i \in Indices :
                /\ perControllers'[i].aborted = outerSignal.aborted
                /\ perControllers'[i].calls = IF outerSignal.aborted THEN 1 ELSE 0
                /\ abortController'[i].aborted = outerSignal.aborted
                /\ attempts'[i].reads = 0 /\ attempts'[i].out = <<>>
                /\ attempts'[i].buffer = <<>>]_vars

\* C31 witness: the second race has just started, with live controllers and
\* its timer armed, after a first race that failed.
C31_Witness ==
    /\ attempt = 2 /\ loop = "racing" /\ timeoutId = "armed" /\ ~outerSignal.aborted
    /\ lastErr.race = 1
    /\ \A i \in Indices : ~perControllers[i].aborted /\ attempts[i].phase = "fetching"

\* C32: once the external signal is aborted, raceWithRetry starts no further
\* race: the delay between two races does not run to its end.
C32_AbortStopsTheRetries ==
    [][(outerSignal.aborted /\ attempt >= 1) => attempt' = attempt]_vars

\* C33: once raceWithRetry has returned a winner, it starts no race and no
\* attempt sends a new upstream request, whatever happens to the winner's
\* connection; an error of the winner's read leaves the race resolved and the
\* response as it was sent, and only closes the stream.
C33_NoRaceAfterAWinner ==
    [][loop = "returned" =>
          /\ attempt' = attempt /\ loop' = "returned" /\ res' = res
          /\ racePromise' = racePromise /\ http' = http
          /\ attempts'[res.index].promise = "resolved"
          /\ \A i \in Indices :
                attempts'[i].phase = "fetching" => attempts[i].phase = "fetching"]_vars

\* C33 witness: the winner's read failed in mid-stream, with text still in its
\* buffer: its stream is closed, and the race stays won.
C33_Witness ==
    /\ loop = "returned" /\ Won /\ http.status = 200
    /\ attempts[res.index].closed /\ attempts[res.index].buffer # <<>>
    /\ ~abortController[res.index].aborted
    /\ response # <<>>

\* ---- termination (SpecLive)
\* C34: a race that is running with its timer armed eventually ends, resolved
\* or rejected; and raceWithRetry, once called, eventually returns or throws,
\* having run at most MAX_RETRY_COUNT races.
C34_EveryRaceEnds ==
    /\ (loop = "racing") ~> (loop # "racing" /\ racePromise.state # "pending")
    /\ raceStarted ~> (loop \in {"returned", "thrown"})
    /\ [](attempt <= MAX_RETRY_COUNT)

\* C34 witness: raceWithRetry has thrown after a third race that the deadline
\* ended while an attempt was streaming frames without content.
C34_Witness ==
    /\ loop = "thrown" /\ attempt = MAX_RETRY_COUNT /\ timeoutId = "fired" /\ Idle
    /\ \E i \in Indices : attempts[i].error = "abort" /\ attempts[i].out # <<>>

C36_EveryEmittedFrameIsTested ==
    \A i \in Indices :
        attempts[i].error = "nomeaningful" =>
            \A k \in 1..Len(attempts[i].out) :
                ~isMeaningfulSSEFrame(frameOf(attempts[i].out[k]))

\* ---- a cancelled attempt (Spec)
\* C37: an attempt whose handle has been invoked, as a loser, by the deadline
\* or by the external abort, is at its end: it reads no further chunk and
\* enqueues no further frame, and if it was reading its stream, the step that
\* cancels it leaves the pump with the output stream closed.
C37_CancelledAttemptStops ==
    /\ [](\A i \in Indices : perControllers[i].aborted => attempts[i].phase = "done")
    /\ [][\A i \in Indices :
             (perControllers[i].aborted /\ attempt' = attempt) =>
                 /\ attempts'[i].reads = attempts[i].reads
                 /\ attempts'[i].out = attempts[i].out
                 /\ attempts'[i].phase = "done"]_vars
    /\ [][\A i \in Indices :
             (attempts[i].phase = "streaming" /\ perControllers'[i].aborted) =>
                 /\ attempts'[i].closed /\ attempts'[i].phase = "done"
                 /\ abortController'[i].aborted /\ ~unlink'[i]
                 /\ attempts'[i].out = attempts[i].out]_vars

\* C37 witness: a winner was chosen while another attempt was reading a stream
\* from which it had emitted frames; that attempt is cancelled and closed.
C37_Witness ==
    /\ Won /\ Idle
    /\ \E j \in Indices \ {Winner} :
          /\ perControllers[j].aborted /\ attempts[j].error = "abort"
          /\ attempts[j].out # <<>> /\ attempts[j].closed

\* ---- the provider list of a race (SpecPost)
\* C38: POST calls raceWithRetry only with a list that has a provider: a race
\* that is started has an attempt for each of at least one provider, and its
\* failure counter starts above zero.
C38_NoRaceWithoutProviders ==
    raceStarted =>
        /\ Len(providers) >= 1 /\ providers = getProviders(env)
        /\ Len(attempts) = Len(providers)
        /\ remaining = Len(providers)
        /\ \A i \in Indices : attempts[i].phase = "fetching"

\* C38 witness: a race is started with the one provider of an environment in
\* which every other slot lacks a variable.
C38_Witness ==
    /\ raceStarted /\ Len(providers) = 1 /\ providers[1].id = 3
    /\ timeoutId = "armed" /\ remaining = 1
    /\ \A i \in {1, 2, 4} : ~Configured(i) /\ env[i] # NoSlot

====
